---- MODULE Spec2Model ----
(***************************************************************************)
(* A model of hodarchive.py: run_jobs submits one job per CSV row to the  *)
(* HoD Archive service, keeps the accepted jobs in a deque, polls them    *)
(* with clean_completed and prints a final tally.  The service's answers  *)
(* (HTTP status codes and job statuses) are the nondeterministic inputs.  *)
(* Spec is the run against well-formed rows and the documented JSON       *)
(* bodies; WideSpec adds malformed rows, 2xx answers with other bodies    *)
(* and status snapshots that do not repeat the jobId.                     *)
(***************************************************************************)
EXTENDS Integers, Sequences, FiniteSets, TLC

\* Bounds of the model.
MaxRows == 3          \* rows in the jobs CSV
MaxRateLimits == 2    \* 429 answers the service gives to one row's submission
MaxPolls == 2         \* non-terminal answers the service gives to one job's polls

Rows == 1..MaxRows

\* The answers of the service.
HTTPCodes == {200, 429, 500}
RetryDelays == {0, 5, 12}
RetryAfter == {{}} \cup {{d} : d \in RetryDelays}
JobStatuses == {"running", "complete", "error"}

VARIABLES
    pc,                 \* position of run_jobs
    nrows,              \* number of data rows of the CSV
    row,                \* rows pulled from yield_jobs so far (line_number of the current job)
    jobs_in_progress,   \* the deque, index 1 is its left end
    completions,
    errors,
    n,                  \* clean_completed: len(jobs) when the loop started
    i,                  \* clean_completed: iterations done
    complete_count,
    error_count,
    \* history of the run (what was called and printed), read by the properties only
    \* the current call of post_with_retry, cleared by the step that follows it
    posts,              \* calls of post
    limited,            \* 429 answers to post
    answer,             \* status code of the last answer to post
    carried,            \* the retry delay the last 429 answer carried: {} or {seconds}
    slept,              \* seconds of the last time.sleep of post_with_retry
    waits,              \* calls of time.sleep by post_with_retry
    idles,              \* calls of time.sleep by the drain loop of run_jobs
    idled,              \* seconds of the last of them
    polls,              \* per row: calls of get_status
    outcome,            \* per row: how the row has ended so far
    out,                \* per row: the notices printed for its job
    handled,            \* calls of handle_error
    arrival,            \* line numbers in the order their jobs were last put in the deque
    sweepStart,         \* line numbers in the deque when the current sweep started
    polled,             \* line numbers polled by the current sweep, in order
    sweeps,             \* calls of clean_completed since the last row was pulled
    lastSweep,          \* how the last of them ended
    missed,             \* jobs present when it started that it did not poll
    malformed,          \* line number of the first malformed row of the CSV, 0 if none
    exc                 \* the exception that left run_jobs, if one did

vars == <<pc, nrows, row, jobs_in_progress, completions, errors, n, i,
          complete_count, error_count, posts, limited, answer, polls, outcome, out,
          handled, arrival, sweepStart, polled, sweeps, lastSweep, missed,
          carried, slept, waits, idles, idled, malformed, exc>>

locals == <<n, i, complete_count, error_count>>

backoff == <<carried, slept, waits>>

idle == <<idles, idled>>

failure == <<malformed, exc>>

-----------------------------------------------------------------------------
\* collections.deque

appendleft(q, x) == <<x>> \o q

pop(q) == q[Len(q)]

popped(q) == SubSeq(q, 1, Len(q) - 1)

\* Response.raise_for_status: 4xx and 5xx raise requests.HTTPError
raise_for_status(code) == code >= 400 /\ code < 600

\* The identifier the service gives to the job of a row.
JobId(r) == r

Job(line_number, info) == [line_number |-> line_number, info |-> info]

LineNumbers(q) == [k \in 1..Len(q) |-> q[k].line_number]

Without(s, r) == SelectSeq(s, LAMBDA x : x # r)

Reverse(s) == [k \in 1..Len(s) |-> s[Len(s) + 1 - k]]

-----------------------------------------------------------------------------
\* post_with_retry without its 429 branch: every HTTPError is re-raised
post_with_retry_no429(code) ==
    IF ~raise_for_status(code) THEN "return" ELSE "raise"

\* post_with_retry sleeping and retrying on every HTTPError
post_with_retry_all(code) ==
    IF ~raise_for_status(code) THEN "return" ELSE "sleep"

\* post_with_retry: what the loop does with the answer to one post
post_with_retry(code) ==
    IF ~raise_for_status(code) THEN "return"
    ELSE IF code = 429 THEN "sleep"
    ELSE "raise"

\* str of a number of seconds below 100, as the service writes it in a header
Digits == <<"0", "1", "2", "3", "4", "5", "6", "7", "8", "9">>

str(k) ==
    IF k < 10 THEN <<Digits[k + 1]>>
    ELSE <<Digits[(k \div 10) + 1], Digits[(k % 10) + 1]>>

\* The headers of a 429 answer: none, or a Retry-After of `delay` seconds.
Headers(delay) == {<<"Retry-After", str(d)>> : d \in delay}

\* headers.get(name, default)
headers_get(headers, name, default) ==
    IF \E h \in headers : h[1] = name
    THEN (CHOOSE h \in headers : h[1] = name)[2]
    ELSE default

\* int of a string of decimal digits
DigitValue(c) == (CHOOSE k \in 1..10 : Digits[k] = c) - 1

RECURSIVE int(_)
int(text) ==
    IF Len(text) = 1 THEN DigitValue(text[1])
    ELSE 10 * int(SubSeq(text, 1, Len(text) - 1)) + DigitValue(text[Len(text)])

\* post_with_retry ignoring the header: always the default delay
retry_sleep_default(headers) == int(<<"1", "0">>)

\* post_with_retry: the seconds of time.sleep(int(headers.get('Retry-After', '10')))
retry_sleep(headers) == int(headers_get(headers, "Retry-After", <<"1", "0">>))

\* clean_completed without its elif branch
clean_branch_noelif(jobStatus) ==
    IF "complete" = jobStatus THEN "complete"
    ELSE "appendleft"

\* clean_completed: what the loop does with a polled jobStatus
clean_branch(jobStatus) ==
    IF "complete" = jobStatus THEN "complete"
    ELSE IF "error" = jobStatus THEN "error"
    ELSE "appendleft"

\* clean_completed putting the job back with append instead of appendleft
clean_requeue_append(q, job) ==
    IF "complete" = job.info.jobStatus \/ "error" = job.info.jobStatus
    THEN popped(q)
    ELSE Append(popped(q), job)

\* clean_completed putting every polled job back
clean_requeue_keep(q, job) == appendleft(popped(q), job)

\* clean_completed: the deque after one iteration that polled `job`
clean_requeue(q, job) ==
    IF clean_branch(job.info.jobStatus) = "appendleft"
    THEN appendleft(popped(q), job)
    ELSE popped(q)

\* run_jobs with clean_completed outside the try block
except_HTTPError_uncaught(at) == "raised"

\* run_jobs: where an HTTPError raised by get_status inside clean_completed lands
except_HTTPError(at) == IF at = "clean" THEN "for" ELSE "raised"

\* clean_completed looping over range(len(jobs) - 1)
range_len_short(q) == Len(q) - 1

\* clean_completed: range(len(jobs)), the number of iterations of its loop
range_len(q) == Len(q)

\* run_jobs with = in place of +=
add_counts_assign(total, new) == new

\* run_jobs: completions += new_completions, errors += new_errors
add_counts(total, new) == total + new

\* run_jobs without the sleep of its drain loop
clean_return_nosleep(at) == IF at = "clean" THEN "for" ELSE "while"

\* run_jobs: the seconds of time.sleep(10.0) in the drain loop
idle_seconds == 10

\* run_jobs: where clean_completed returns to
clean_return(at) == IF at = "clean" THEN "for" ELSE "sleep"

\* What leaves run_jobs when it does not return: the exception and the
\* function that raised it.
NoException == [type |-> "none", raised_in |-> "none"]

Exception(type, raised_in) == [type |-> type, raised_in |-> raised_in]

\* to_request raises for a malformed row: a row with more fields than the
\* header has its surplus under the key None of csv.DictReader, and
\* normalize_key(None) raises AttributeError.  (A header without one of the
\* six columns makes ArchiveRequest(**normalized_row) raise TypeError at row
\* 1, along the same path; a row with fewer fields than the header is filled
\* with None and converted like any other row.)
to_request(line, bad) == IF line = bad THEN "AttributeError" ELSE "ArchiveRequest"

\* yield_jobs converting every row before it yields the first Job
yield_jobs_eager(line, bad) == IF bad # 0 THEN "AttributeError" ELSE "Job"

\* yield_jobs: the generator converts one row per next()
yield_jobs(line, bad) ==
    IF to_request(line, bad) = "ArchiveRequest" THEN "Job" ELSE to_request(line, bad)

\* The content of a 2xx answer: a JSON object, text that is not JSON, nothing.
Contents == {"json", "text", "empty"}

\* read_response_body, by the type of what it returns: the parsed dict, None
\* for an empty content, the decoded text when json.loads fails
read_response_body(content) ==
    CASE content = "empty" -> "NoneType"
      [] content = "json" -> "dict"
      [] OTHER -> "str"

\* body[key] for a string key: str and None raise TypeError, a dict without
\* the key raises KeyError
getitem(body, has_key) ==
    IF body # "dict" THEN "TypeError"
    ELSE IF ~has_key THEN "KeyError" ELSE "value"

\* The jobId field of a status snapshot: absent, the id of the first job of
\* the run, or an id of no job of the run (0).
SnapshotIds == {{}} \cup {{id} : id \in {0, JobId(1)}}

\* a status snapshot as job.info keeps it
Snapshot(ids, jobStatus) ==
    IF ids = {}
    THEN [jobStatus |-> jobStatus]
    ELSE [jobId |-> CHOOSE id \in ids : TRUE, jobStatus |-> jobStatus]

-----------------------------------------------------------------------------
Constructed ==
    /\ pc = "for"
    /\ nrows \in 0..MaxRows
    /\ row = 0
    /\ jobs_in_progress = <<>>
    /\ completions = 0
    /\ errors = 0
    /\ n = 0 /\ i = 0 /\ complete_count = 0 /\ error_count = 0
    /\ posts = 0
    /\ limited = 0
    /\ answer = 0
    /\ carried = {} /\ slept = 0 /\ waits = 0
    /\ idles = 0 /\ idled = 0
    /\ polls = [r \in Rows |-> 0]
    /\ outcome = [r \in Rows |-> "none"]
    /\ out = [r \in Rows |-> [submitted |-> 0, complete |-> 0, errored |-> 0]]
    /\ handled = 0
    /\ arrival = <<>>
    /\ sweepStart = <<>>
    /\ polled = <<>>
    /\ sweeps = 0
    /\ lastSweep = "none"
    /\ missed = 0
    /\ exc = NoException

\* the jobs CSV has well-formed rows only
Init == Constructed /\ malformed = 0

\* the jobs CSV may hold a malformed row
WideInit == Constructed /\ malformed \in 0..nrows

\* the for loop pulls the next Job from yield_jobs
Pull ==
    /\ pc = "for"
    /\ row < nrows
    /\ yield_jobs(row + 1, malformed) = "Job"
    /\ row' = row + 1
    /\ pc' = "post"
    /\ posts' = 0 /\ limited' = 0 /\ answer' = 0
    /\ carried' = {} /\ slept' = 0 /\ waits' = 0
    /\ sweeps' = 0
    /\ lastSweep' = "none"
    /\ missed' = 0
    /\ UNCHANGED <<nrows, jobs_in_progress, completions, errors, locals, polls,
                   outcome, out, handled, arrival, sweepStart, polled>>
    /\ UNCHANGED idle
    /\ UNCHANGED failure

\* yield_jobs is exhausted: the for loop ends
Exhausted ==
    /\ pc = "for"
    /\ row = nrows
    /\ pc' = "while"
    /\ posts' = 0 /\ limited' = 0 /\ answer' = 0
    /\ carried' = {} /\ slept' = 0 /\ waits' = 0
    /\ sweeps' = 0
    /\ lastSweep' = "none"
    /\ missed' = 0
    /\ UNCHANGED <<nrows, row, jobs_in_progress, completions, errors, locals,
                   polls, outcome, out, handled, arrival, sweepStart, polled>>
    /\ UNCHANGED idle
    /\ UNCHANGED failure

\* post answers 2xx: post_with_retry returns, the job is notified and put in
\* the deque, and clean_completed is entered
PostReturns(code, jobStatus) ==
    /\ pc = "post"
    /\ post_with_retry(code) = "return"
    /\ LET job == Job(row, [jobId |-> JobId(row), jobStatus |-> jobStatus])
           q == appendleft(jobs_in_progress, job)
       IN  /\ jobs_in_progress' = q
           /\ n' = range_len(q)
           /\ sweepStart' = LineNumbers(q)
    /\ i' = 0 /\ complete_count' = 0 /\ error_count' = 0
    /\ polled' = <<>>
    /\ sweeps' = sweeps + 1
    /\ lastSweep' = "running"
    /\ missed' = 0
    /\ pc' = "clean"
    /\ posts' = posts + 1
    /\ answer' = code
    /\ out' = [out EXCEPT ![row].submitted = @ + 1]
    /\ outcome' = [outcome EXCEPT ![row] = "inflight"]
    /\ arrival' = Append(arrival, row)
    /\ UNCHANGED backoff
    /\ UNCHANGED <<nrows, row, completions, errors, limited, polls, handled>>
    /\ UNCHANGED idle
    /\ UNCHANGED failure

\* post answers 429, with or without a Retry-After header: post_with_retry
\* sleeps and goes round its loop
PostRateLimited(code, delay) ==
    /\ pc = "post"
    /\ post_with_retry(code) = "sleep"
    /\ limited < MaxRateLimits
    /\ posts' = posts + 1
    /\ answer' = code
    /\ limited' = limited + 1
    /\ carried' = delay
    /\ slept' = retry_sleep(Headers(delay))
    /\ waits' = waits + 1
    /\ UNCHANGED <<pc, nrows, row, jobs_in_progress, completions, errors, locals,
                   polls, outcome, out, handled, arrival, sweepStart, polled, sweeps,
                   lastSweep, missed>>
    /\ UNCHANGED idle
    /\ UNCHANGED failure

\* post answers another 4xx/5xx: post_with_retry re-raises, run_jobs counts
\* an error, calls handle_error and goes on with the for loop
PostRaises(code) ==
    /\ pc = "post"
    /\ post_with_retry(code) = "raise"
    /\ errors' = errors + 1
    /\ handled' = handled + 1
    /\ pc' = "for"
    /\ posts' = posts + 1
    /\ answer' = code
    /\ outcome' = [outcome EXCEPT ![row] = "post_failed"]
    /\ UNCHANGED backoff
    /\ UNCHANGED <<nrows, row, jobs_in_progress, completions, locals, limited,
                   polls, out, arrival, sweepStart, polled, sweeps, lastSweep,
                   missed>>
    /\ UNCHANGED idle
    /\ UNCHANGED failure

\* one iteration of clean_completed whose get_status answers 2xx
PollReturns(code, jobStatus) ==
    /\ pc \in {"clean", "drain"}
    /\ i < n
    /\ jobs_in_progress # <<>>
    /\ ~raise_for_status(code)
    /\ "jobId" \in DOMAIN pop(jobs_in_progress).info
    /\ LET old == pop(jobs_in_progress)
           r == old.line_number
           job == Job(r, [jobId |-> old.info.jobId, jobStatus |-> jobStatus])
           branch == clean_branch(jobStatus)
       IN  /\ jobStatus \notin {"complete", "error"} => polls[r] < MaxPolls
           /\ jobs_in_progress' = clean_requeue(jobs_in_progress, job)
           /\ complete_count' = complete_count + (IF branch = "complete" THEN 1 ELSE 0)
           /\ error_count' = error_count + (IF branch = "error" THEN 1 ELSE 0)
           /\ out' = [out EXCEPT
                  ![r].complete = @ + (IF branch = "complete" THEN 1 ELSE 0),
                  ![r].errored = @ + (IF branch = "error" THEN 1 ELSE 0)]
           /\ outcome' = [outcome EXCEPT ![r] =
                  IF jobStatus \in {"complete", "error"} THEN jobStatus ELSE @]
           /\ polls' = [polls EXCEPT ![r] = @ + 1]
           /\ polled' = Append(polled, r)
           /\ arrival' = IF branch = "appendleft"
                         THEN Append(Without(arrival, r), r)
                         ELSE Without(arrival, r)
    /\ i' = i + 1
    /\ posts' = 0 /\ limited' = 0 /\ answer' = 0
    /\ carried' = {} /\ slept' = 0 /\ waits' = 0
    /\ UNCHANGED <<pc, nrows, row, completions, errors, n, handled, sweepStart,
                   sweeps, lastSweep, missed>>
    /\ UNCHANGED idle
    /\ UNCHANGED failure

\* one iteration of clean_completed whose get_status answers 4xx/5xx: the
\* HTTPError leaves clean_completed with the job popped; inside the for loop
\* it is caught by run_jobs' except clause, in the drain loop it leaves run_jobs
PollRaises(code) ==
    /\ pc \in {"clean", "drain"}
    /\ i < n
    /\ jobs_in_progress # <<>>
    /\ raise_for_status(code)
    /\ "jobId" \in DOMAIN pop(jobs_in_progress).info
    /\ LET r == pop(jobs_in_progress).line_number
       IN  /\ jobs_in_progress' = popped(jobs_in_progress)
           /\ polls' = [polls EXCEPT ![r] = @ + 1]
           /\ outcome' = [outcome EXCEPT ![r] = "poll_failed"]
           /\ arrival' = Without(arrival, r)
    /\ pc' = except_HTTPError(pc)
    /\ errors' = IF pc' = "for" THEN errors + 1 ELSE errors
    /\ handled' = IF pc' = "for" THEN handled + 1 ELSE handled
    /\ n' = 0 /\ i' = 0 /\ complete_count' = 0 /\ error_count' = 0
    /\ sweepStart' = <<>> /\ polled' = <<>>
    /\ lastSweep' = "raised"
    /\ missed' = Len(sweepStart) - (Len(polled) + 1)
    /\ posts' = 0 /\ limited' = 0 /\ answer' = 0
    /\ carried' = {} /\ slept' = 0 /\ waits' = 0
    /\ exc' = IF pc' = "raised" THEN Exception("HTTPError", "get_status") ELSE exc
    /\ UNCHANGED <<nrows, row, completions, out, sweeps, malformed>>
    /\ UNCHANGED idle

\* clean_completed returns its counts and run_jobs adds them to its tally
CleanReturn ==
    /\ pc \in {"clean", "drain"}
    /\ i = n
    /\ completions' = add_counts(completions, complete_count)
    /\ errors' = add_counts(errors, error_count)
    /\ pc' = clean_return(pc)
    /\ n' = 0 /\ i' = 0 /\ complete_count' = 0 /\ error_count' = 0
    /\ sweepStart' = <<>> /\ polled' = <<>>
    /\ lastSweep' = "returned"
    /\ missed' = Len(sweepStart) - Len(polled)
    /\ UNCHANGED backoff
    /\ UNCHANGED <<nrows, row, jobs_in_progress, posts, limited, answer, polls,
                   outcome, out, handled, arrival, sweeps>>
    /\ UNCHANGED idle
    /\ UNCHANGED failure

\* while jobs_in_progress: enter clean_completed, or leave the loop and print
\* the results
WhileTest ==
    /\ pc = "while"
    /\ IF jobs_in_progress # <<>>
       THEN /\ pc' = "drain"
            /\ n' = range_len(jobs_in_progress)
            /\ sweepStart' = LineNumbers(jobs_in_progress)
            /\ polled' = <<>>
            /\ sweeps' = sweeps + 1
            /\ lastSweep' = "running"
            /\ missed' = 0
       ELSE /\ pc' = "done"
            /\ UNCHANGED <<n, sweepStart, polled, sweeps, lastSweep, missed>>
    /\ i' = 0 /\ complete_count' = 0 /\ error_count' = 0
    /\ UNCHANGED backoff
    /\ UNCHANGED <<nrows, row, jobs_in_progress, completions, errors, posts,
                   limited, answer, polls, outcome, out, handled, arrival>>
    /\ UNCHANGED idle
    /\ UNCHANGED failure

\* time.sleep(10.0) at the end of a drain iteration
Sleep ==
    /\ pc = "sleep"
    /\ pc' = "while"
    /\ idles' = idles + 1
    /\ idled' = idle_seconds
    /\ UNCHANGED backoff
    /\ UNCHANGED failure
    /\ UNCHANGED <<nrows, row, jobs_in_progress, completions, errors, locals,
                   posts, limited, answer, polls, outcome, out, handled, arrival,
                   sweepStart, polled, sweeps, lastSweep, missed>>

\* the next row of the CSV is malformed: to_request raises inside the
\* generator and the exception leaves the for statement of run_jobs
PullMalformed ==
    /\ pc = "for"
    /\ row < nrows
    /\ yield_jobs(row + 1, malformed) # "Job"
    /\ pc' = "raised"
    /\ exc' = Exception(yield_jobs(row + 1, malformed), "to_request")
    /\ posts' = 0 /\ limited' = 0 /\ answer' = 0
    /\ carried' = {} /\ slept' = 0 /\ waits' = 0
    /\ UNCHANGED <<nrows, row, jobs_in_progress, completions, errors, locals, polls,
                   outcome, out, handled, arrival, sweepStart, polled, sweeps,
                   lastSweep, missed, malformed>>
    /\ UNCHANGED idle

\* post answers 2xx with a body that is not a dict holding 'job': body['job']
\* raises TypeError or KeyError, which no except clause of post_with_retry or
\* run_jobs catches
PostCrashes(code, content, has_job) ==
    /\ pc = "post"
    /\ post_with_retry(code) = "return"
    /\ getitem(read_response_body(content), has_job) # "value"
    /\ pc' = "raised"
    /\ exc' = Exception(getitem(read_response_body(content), has_job), "post")
    /\ posts' = posts + 1
    /\ answer' = code
    /\ outcome' = [outcome EXCEPT ![row] = "crashed"]
    /\ UNCHANGED backoff
    /\ UNCHANGED <<nrows, row, jobs_in_progress, completions, errors, locals,
                   limited, polls, out, handled, arrival, sweepStart, polled,
                   sweeps, lastSweep, missed, malformed>>
    /\ UNCHANGED idle

\* one iteration of clean_completed whose get_status answers 2xx with a body
\* that is not a dict holding 'jobStatus': job.info['jobStatus'] raises
\* TypeError or KeyError, which leaves clean_completed and run_jobs
PollCrashes(code, content, has_status) ==
    /\ pc \in {"clean", "drain"}
    /\ i < n
    /\ jobs_in_progress # <<>>
    /\ "jobId" \in DOMAIN pop(jobs_in_progress).info
    /\ ~raise_for_status(code)
    /\ getitem(read_response_body(content), has_status) # "value"
    /\ LET r == pop(jobs_in_progress).line_number
       IN  /\ jobs_in_progress' = popped(jobs_in_progress)
           /\ polls' = [polls EXCEPT ![r] = @ + 1]
           /\ outcome' = [outcome EXCEPT ![r] = "crashed"]
           /\ arrival' = Without(arrival, r)
    /\ pc' = "raised"
    /\ exc' = Exception(getitem(read_response_body(content), has_status),
                        "clean_completed")
    /\ n' = 0 /\ i' = 0 /\ complete_count' = 0 /\ error_count' = 0
    /\ sweepStart' = <<>> /\ polled' = <<>>
    /\ lastSweep' = "raised"
    /\ missed' = Len(sweepStart) - (Len(polled) + 1)
    /\ posts' = 0 /\ limited' = 0 /\ answer' = 0
    /\ carried' = {} /\ slept' = 0 /\ waits' = 0
    /\ UNCHANGED <<nrows, row, completions, errors, out, handled, sweeps, malformed>>
    /\ UNCHANGED idle

\* one iteration of clean_completed for a job whose last snapshot had no
\* 'jobId': job.info['jobId'] raises KeyError before get_status is called
PollKeyError ==
    /\ pc \in {"clean", "drain"}
    /\ i < n
    /\ jobs_in_progress # <<>>
    /\ "jobId" \notin DOMAIN pop(jobs_in_progress).info
    /\ LET r == pop(jobs_in_progress).line_number
       IN  /\ jobs_in_progress' = popped(jobs_in_progress)
           /\ outcome' = [outcome EXCEPT ![r] = "crashed"]
           /\ arrival' = Without(arrival, r)
    /\ pc' = "raised"
    /\ exc' = Exception("KeyError", "clean_completed")
    /\ n' = 0 /\ i' = 0 /\ complete_count' = 0 /\ error_count' = 0
    /\ sweepStart' = <<>> /\ polled' = <<>>
    /\ lastSweep' = "raised"
    /\ missed' = Len(sweepStart) - (Len(polled) + 1)
    /\ posts' = 0 /\ limited' = 0 /\ answer' = 0
    /\ carried' = {} /\ slept' = 0 /\ waits' = 0
    /\ UNCHANGED <<nrows, row, completions, errors, polls, out, handled, sweeps,
                   malformed>>
    /\ UNCHANGED idle

\* one iteration of clean_completed whose get_status answers 2xx with a
\* snapshot that does not repeat the jobId it was asked for: the snapshot
\* replaces job.info; a terminal job is counted and its notice reads
\* job.info['jobId'], which raises KeyError when the snapshot has none
PollDrifts(code, jobStatus, ids) ==
    /\ pc \in {"clean", "drain"}
    /\ i < n
    /\ jobs_in_progress # <<>>
    /\ "jobId" \in DOMAIN pop(jobs_in_progress).info
    /\ ~raise_for_status(code)
    /\ ids # {pop(jobs_in_progress).info.jobId}
    /\ LET r == pop(jobs_in_progress).line_number
           job == Job(r, Snapshot(ids, jobStatus))
           branch == clean_branch(jobStatus)
           notice == getitem("dict", ids # {})
       IN  /\ jobStatus \notin {"complete", "error"} => polls[r] < MaxPolls
           /\ polls' = [polls EXCEPT ![r] = @ + 1]
           /\ IF branch # "appendleft" /\ notice = "KeyError"
              THEN /\ jobs_in_progress' = popped(jobs_in_progress)
                   /\ outcome' = [outcome EXCEPT ![r] = "crashed"]
                   /\ arrival' = Without(arrival, r)
                   /\ pc' = "raised"
                   /\ exc' = Exception("KeyError", "notify_job_" \o
                                 (IF branch = "complete" THEN "complete" ELSE "errored"))
                   /\ n' = 0 /\ i' = 0 /\ complete_count' = 0 /\ error_count' = 0
                   /\ sweepStart' = <<>> /\ polled' = <<>>
                   /\ lastSweep' = "raised"
                   /\ missed' = Len(sweepStart) - (Len(polled) + 1)
                   /\ UNCHANGED out
              ELSE /\ jobs_in_progress' = clean_requeue(jobs_in_progress, job)
                   /\ complete_count' = complete_count + (IF branch = "complete" THEN 1 ELSE 0)
                   /\ error_count' = error_count + (IF branch = "error" THEN 1 ELSE 0)
                   /\ out' = [out EXCEPT
                          ![r].complete = @ + (IF branch = "complete" THEN 1 ELSE 0),
                          ![r].errored = @ + (IF branch = "error" THEN 1 ELSE 0)]
                   /\ outcome' = [outcome EXCEPT ![r] =
                          IF jobStatus \in {"complete", "error"} THEN jobStatus ELSE @]
                   /\ polled' = Append(polled, r)
                   /\ arrival' = IF branch = "appendleft"
                                 THEN Append(Without(arrival, r), r)
                                 ELSE Without(arrival, r)
                   /\ i' = i + 1
                   /\ UNCHANGED <<pc, exc, n, sweepStart, lastSweep, missed>>
    /\ posts' = 0 /\ limited' = 0 /\ answer' = 0
    /\ carried' = {} /\ slept' = 0 /\ waits' = 0
    /\ UNCHANGED <<nrows, row, completions, errors, handled, sweeps, malformed>>
    /\ UNCHANGED idle

Next ==
    \/ Pull
    \/ Exhausted
    \/ \E code \in HTTPCodes, s \in JobStatuses : PostReturns(code, s)
    \/ \E code \in HTTPCodes, delay \in RetryAfter : PostRateLimited(code, delay)
    \/ \E code \in HTTPCodes : PostRaises(code)
    \/ \E code \in HTTPCodes, s \in JobStatuses : PollReturns(code, s)
    \/ \E code \in HTTPCodes : PollRaises(code)
    \/ CleanReturn
    \/ WhileTest
    \/ Sleep

Spec == Init /\ [][Next]_vars

\* run_jobs is one thread that runs until it returns or raises
LiveSpec == Spec /\ WF_vars(Next)

\* The run against a service that answers every call with 200 (and, as in
\* every run of the model, reports a job as running at most MaxPolls times).
NextHealthy ==
    \/ Pull
    \/ Exhausted
    \/ \E s \in JobStatuses : PostReturns(200, s)
    \/ \E s \in JobStatuses : PollReturns(200, s)
    \/ CleanReturn
    \/ WhileTest
    \/ Sleep

HealthySpec == Init /\ [][NextHealthy]_vars /\ WF_vars(NextHealthy)

\* The run with any CSV and any answer of the service: malformed rows, 2xx
\* answers whose body is not the documented JSON object, status snapshots
\* that do not repeat the jobId.
WideNext ==
    \/ Next
    \/ PullMalformed
    \/ \E code \in HTTPCodes, content \in Contents, has_job \in BOOLEAN :
           PostCrashes(code, content, has_job)
    \/ \E code \in HTTPCodes, content \in Contents, has_status \in BOOLEAN :
           PollCrashes(code, content, has_status)
    \/ PollKeyError
    \/ \E code \in HTTPCodes, s \in JobStatuses, ids \in SnapshotIds :
           PollDrifts(code, s, ids)

WideSpec == WideInit /\ [][WideNext]_vars

-----------------------------------------------------------------------------
Terminal == {"complete", "error"}

InDeque(r) == \E k \in 1..Len(jobs_in_progress) : jobs_in_progress[k].line_number = r

\* C1: whenever run_jobs reaches its final report, completions + errors is
\* the number of input records pulled from yield_jobs.
C1_TallyCoversEveryRecord ==
    pc = "done" => completions + errors = row

\* C2 (as stated): the working set never holds a job whose last-known status
\* is complete or error.
C2_NoTerminalJobInWorkingSet ==
    \A k \in 1..Len(jobs_in_progress) :
        jobs_in_progress[k].info.jobStatus \notin Terminal

\* C2 (amended): a job of the working set that has been polled has a status
\* that is neither complete nor error, so every job a sweep put back is
\* non-terminal; a job with a terminal status in the working set is one that
\* post returned with that status and that no sweep has polled yet.
C2_NoPolledTerminalJobInWorkingSet ==
    \A k \in 1..Len(jobs_in_progress) :
        LET job == jobs_in_progress[k]
        IN  polls[job.line_number] > 0 => job.info.jobStatus \notin Terminal

\* a sweep has returned, one job was retired and a polled job was put back
C2_Witness ==
    /\ lastSweep = "returned"
    /\ \E r \in Rows : outcome[r] \in Terminal
    /\ \E k \in 1..Len(jobs_in_progress) : polls[jobs_in_progress[k].line_number] > 0

\* C3: a sweep polls the jobs that were in the deque when it started once
\* each, from the right end (the oldest put in) to the left; the jobs it puts
\* back lie to the left of all jobs it has not polled yet, and when its loop
\* ends every job present at the start was polled exactly once.
C3_SweepPollsEachJobOnceOldestFirst ==
    pc \in {"clean", "drain"} =>
        LET old == Reverse(sweepStart)
            kept == SelectSeq(polled, InDeque)
        IN  /\ i <= n /\ n = Len(sweepStart)
            /\ polled = SubSeq(old, 1, i)
            /\ Cardinality({polled[k] : k \in 1..Len(polled)}) = Len(polled)
            /\ LineNumbers(jobs_in_progress)
                   = Reverse(kept) \o SubSeq(sweepStart, 1, n - i)
            /\ arrival = Reverse(LineNumbers(jobs_in_progress))
            /\ i = n => polled = old

\* the loop of a sweep over three jobs has ended: some were retired, some put back
C3_Witness ==
    /\ pc \in {"clean", "drain"}
    /\ i = n /\ n >= 3
    /\ Len(jobs_in_progress) \in 1..(n - 1)

\* C4: a 429 answer to post leaves the driver in post_with_retry with the
\* same row, the error counter and the working set unchanged and no failure
\* handled; when the post is accepted after 429 answers the job is put at the
\* left of the working set with one submission notice; no job is notified as
\* submitted twice; and a rate-limited submission is eventually accepted
\* (notified) or fails hard.
C4_RateLimitedSubmitIsRetried ==
    /\ [][(pc = "post" /\ posts' = posts + 1 /\ answer' = 429) =>
            /\ pc' = "post" /\ row' = row
            /\ limited' = limited + 1
            /\ errors' = errors /\ handled' = handled
            /\ jobs_in_progress' = jobs_in_progress
            /\ out' = out]_vars
    /\ [][(pc = "post" /\ limited > 0 /\ posts' = posts + 1 /\ answer' < 400) =>
            /\ Len(jobs_in_progress') = Len(jobs_in_progress) + 1
            /\ jobs_in_progress'[1].line_number = row
            /\ out'[row].submitted = 1
            /\ errors' = errors /\ handled' = handled]_vars
    /\ [](\A r \in Rows : out[r].submitted <= 1)
    /\ \A r \in Rows :
          (pc = "post" /\ row = r /\ limited > 0)
              ~> (out[r].submitted = 1 \/ outcome[r] = "post_failed")

\* a row was accepted after two 429 answers and its job is in the working set
C4_Witness ==
    /\ pc = "clean"
    /\ limited >= 2 /\ answer = 200
    /\ InDeque(row)
    /\ out[row].submitted = 1
    /\ errors = 0

\* C5: a 4xx/5xx answer to post other than 429 adds exactly one to the error
\* counter, leaves the working set alone and returns the driver to its for
\* loop, which pulls the next row; the row is not posted again, its job is
\* never in the working set, never notified and never polled.
C5_HardSubmitFailureIsOneError ==
    /\ [][(pc = "post" /\ posts' = posts + 1 /\ answer' >= 400 /\ answer' # 429) =>
            /\ errors' = errors + 1 /\ completions' = completions
            /\ handled' = handled + 1
            /\ jobs_in_progress' = jobs_in_progress
            /\ pc' = "for" /\ row' = row]_vars
    /\ [][posts' > posts => (pc = "post" /\ outcome[row] = "none")]_vars
    /\ [][(pc = "for" /\ row >= 1 /\ outcome[row] = "post_failed" /\ row < nrows) =>
            (row' = row + 1 /\ pc' = "post")]_vars
    /\ [](\A r \in Rows : outcome[r] = "post_failed" =>
            /\ ~InDeque(r)
            /\ polls[r] = 0
            /\ out[r] = [submitted |-> 0, complete |-> 0, errored |-> 0])
    /\ [][\A r \in Rows : outcome[r] = "post_failed" => outcome'[r] = "post_failed"]_vars

\* the post of a row failed hard, one error was counted and the next row was
\* pulled and accepted
C5_Witness ==
    /\ pc = "clean"
    /\ row >= 2
    /\ outcome[row - 1] = "post_failed"
    /\ errors = 1
    /\ InDeque(row)

PollFailed(r) == outcome[r] = "poll_failed"

\* C6 (as stated): once a poll call has failed the run is terminated.
C6_PollFailureTerminatesRun ==
    \A r \in Rows : PollFailed(r) => pc = "raised"

\* C6 (amended): a failed poll call aborts the sweep: the job polled is no
\* longer in the working set, the counts of the sweep are not added to the
\* tally and no further job is polled by that sweep.  In a sweep of the drain
\* loop the failure leaves run_jobs, which takes no further step; in a sweep
\* made after a submission it is caught by the driver, which adds one to the
\* error counter, handles the error and goes on with the for loop.
C6_PollFailureAbortsSweep ==
    /\ [][(\E r \in Rows : ~PollFailed(r) /\ PollFailed(r)') =>
            /\ pc \in {"clean", "drain"}
            /\ lastSweep' = "raised"
            /\ Len(jobs_in_progress') = Len(jobs_in_progress) - 1
            /\ \A r \in Rows : PollFailed(r)' => ~InDeque(r)'
            /\ completions' = completions
            /\ IF pc = "drain"
               THEN pc' = "raised" /\ errors' = errors /\ handled' = handled
               ELSE pc' = "for" /\ errors' = errors + 1 /\ handled' = handled + 1]_vars
    /\ [][pc # "raised"]_vars

\* a poll failed in a sweep made after a submission and the next row was pulled
C6_Witness ==
    /\ pc = "post"
    /\ row >= 2
    /\ PollFailed(row - 1)
    /\ errors >= 1

\* C7: against a service that never rate-limits or fails a call and reports
\* every job terminal after finitely many polls, the run reaches its final
\* report, and it does so with an empty working set and
\* completions + errors = the number of rows.
C7_HealthyRunTerminates ==
    /\ <>(pc = "done")
    /\ [](pc = "done" =>
            /\ jobs_in_progress = <<>>
            /\ row = nrows
            /\ completions + errors = nrows)

\* the final report of a run of three rows, with completions and errors, one
\* of the jobs polled three times
C7_Witness ==
    /\ pc = "done"
    /\ nrows = 3
    /\ completions >= 1 /\ errors >= 1
    /\ \E r \in Rows : polls[r] >= 3

ErrorRows == {r \in Rows : outcome[r] \in {"post_failed", "poll_failed", "error"}}

\* C8: at the final report the error counter is the number of rows that ended
\* in error: post failed hard, a poll call failed, or the service reported
\* the job with status error.
C8_ErrorsCountRowsInError ==
    pc = "done" => errors = Cardinality(ErrorRows)

Notices(r) == out[r].complete + out[r].errored

\* C9: a job gets at most one terminal notice, and exactly one (of the kind
\* of the status) once a poll has returned complete or error for it; a job
\* with a terminal notice is not in the working set, and is never polled or
\* put in the working set afterwards.
C9_OneTerminalNoticePerJob ==
    /\ [](\A r \in Rows :
            /\ Notices(r) <= 1
            /\ outcome[r] = "complete" <=> out[r].complete = 1
            /\ outcome[r] = "error" <=> out[r].errored = 1
            /\ Notices(r) = 1 => ~InDeque(r))
    /\ [][\A r \in Rows : Notices(r) = 1 =>
            /\ polls'[r] = polls[r]
            /\ ~InDeque(r)'
            /\ out'[r] = out[r]]_vars

\* a drain sweep is running after one job was notified complete and another
\* errored
C9_Witness ==
    /\ pc = "drain"
    /\ \E r1, r2 \in Rows : out[r1].complete = 1 /\ out[r2].errored = 1
    /\ jobs_in_progress # <<>>

\* C10, the part on the order of the rows: rows are pulled one at a time in
\* input order, from the top of the for loop, once the submission of the
\* previous row is resolved; post is only called for the row pulled last; an
\* accepted job is put in the working set by the step that accepts it.
C10_OneRowAtATime ==
    /\ [][row' # row =>
            /\ pc = "for" /\ pc' = "post"
            /\ row' = row + 1
            /\ row >= 1 => outcome[row] # "none"]_vars
    /\ [][posts' > posts => (pc = "post" /\ row' = row /\ outcome[row] = "none")]_vars
    /\ [][(pc = "post" /\ pc' = "clean") => InDeque(row)']_vars

\* C10 (as stated): in addition, when the next row is pulled after an accepted
\* submission, exactly one sweep was made and it made a poll call for every
\* job of the working set, the job just submitted included; after a failed
\* submission no sweep was made.
C10_OneWholeSweepPerSubmission ==
    /\ C10_OneRowAtATime
    /\ [][(pc = "for" /\ row >= 1 /\ row' = row + 1) =>
            IF out[row].submitted = 1
            THEN sweeps = 1 /\ missed = 0 /\ polls[row] >= 1
            ELSE sweeps = 0]_vars

\* C10 (amended): when the next row is pulled after an accepted submission,
\* exactly one sweep was started; it returned having polled every job of the
\* working set, the job just submitted included, or one of its poll calls
\* failed and it stopped there: the jobs behind the failed one, the job just
\* submitted last of them, were then not polled.  After a failed submission
\* no sweep was made.
C10_OneSweepPerSubmission ==
    /\ C10_OneRowAtATime
    /\ [][(pc = "for" /\ row >= 1 /\ row' = row + 1) =>
            IF out[row].submitted = 1
            THEN /\ sweeps = 1
                 /\ \/ lastSweep = "returned" /\ missed = 0 /\ polls[row] >= 1
                    \/ /\ lastSweep = "raised"
                       /\ \E r \in Rows : PollFailed(r)
                       /\ missed > 0 <=> polls[row] = 0
            ELSE sweeps = 0 /\ lastSweep = "none"]_vars

\* the sweep after the second submission has polled two jobs and returned,
\* and a row is left to pull
C10_Witness ==
    /\ pc = "for"
    /\ row = 2 /\ row < nrows
    /\ sweeps = 1 /\ lastSweep = "returned" /\ missed = 0
    /\ Len(jobs_in_progress) = 2

\* C11: every 429 answer to post is followed by exactly one sleep, of the
\* seconds its Retry-After header carried, or of 10 seconds when it carried
\* none, and then by a retry for the same row, however many attempts were
\* made before (no attempt limit, no growth of the delay); post_with_retry
\* sleeps for no other reason, so the k-th retry is preceded by k sleeps.
C11_RetryWaitsTheCarriedDelay ==
    /\ [][(pc = "post" /\ posts' = posts + 1 /\ answer' = 429) =>
            /\ waits' = waits + 1
            /\ slept' = (IF carried' = {} THEN 10 ELSE CHOOSE d \in carried' : TRUE)
            /\ pc' = "post" /\ row' = row]_vars
    /\ [][waits' > waits => (pc = "post" /\ answer' = 429)]_vars
    /\ [](pc = "post" => (posts = waits /\ posts = limited))

\* the submission of a row was answered 429 twice, the second time with a
\* Retry-After of 12 seconds, and post_with_retry slept 12 seconds and is
\* about to post again
C11_Witness ==
    /\ pc = "post"
    /\ limited = 2 /\ waits = 2
    /\ carried = {12}
    /\ slept = 12

\* C12: a 429 answer to post keeps the driver in post_with_retry, and every
\* step taken inside post_with_retry is another post for the same row: no job
\* is polled, no row is pulled, the working set, the two counters and the
\* notices stay as they are; so while the answers are 429 the jobs in flight
\* are not retired and the final report is not reached.
C12_NothingElseRunsWhileRateLimited ==
    /\ [][(pc = "post" /\ posts' = posts + 1 /\ answer' = 429) => pc' = "post"]_vars
    /\ [][(pc = "post" /\ pc' = "post") =>
            /\ posts' = posts + 1
            /\ row' = row
            /\ polls' = polls
            /\ jobs_in_progress' = jobs_in_progress
            /\ completions' = completions /\ errors' = errors
            /\ out' = out /\ outcome' = outcome /\ handled' = handled]_vars
    /\ [][pc = "post" => pc' \in {"post", "clean", "for"}]_vars

\* the third row is rate-limited for the second time while two jobs are in
\* the working set
C12_Witness ==
    /\ pc = "post"
    /\ limited = 2
    /\ row = 3
    /\ Len(jobs_in_progress) = 2

\* C13: once yield_jobs is exhausted no row is pulled or posted, no job
\* enters the working set and its length never grows; every drain sweep that
\* returns is followed by one sleep of 10 seconds and then by the test of the
\* while loop, so sweeps and sleeps alternate; and the final report is reached
\* only with an empty working set.
C13_DrainOnlyShrinksTheWorkingSet ==
    /\ [][(pc \in {"while", "drain", "sleep", "done", "raised"}) =>
            /\ pc' \in {"while", "drain", "sleep", "done", "raised"}
            /\ \A r \in Rows : (InDeque(r)' => InDeque(r))
            /\ Len(jobs_in_progress') <= Len(jobs_in_progress)
            /\ row' = row /\ posts' = posts]_vars
    /\ [][pc = "drain" => pc' \in {"drain", "sleep", "raised"}]_vars
    /\ [][pc = "sleep" =>
            (pc' = "while" /\ idles' = idles + 1 /\ idled' = 10)]_vars
    /\ [](pc \in {"drain", "sleep"} => sweeps = idles + 1)
    /\ [](pc \in {"while", "done"} => sweeps = idles)
    /\ [](pc = "done" => jobs_in_progress = <<>>)

\* the final report after two drain sweeps, each followed by its sleep, of a
\* run in which three jobs were accepted
C13_Witness ==
    /\ pc = "done"
    /\ idles = 2 /\ idled = 10
    /\ \A r \in Rows : out[r].submitted = 1
    /\ jobs_in_progress = <<>>

\* C14: a 2xx answer of create-job or get-status whose body is not a JSON
\* object is no hard failure: the body reaches run_jobs as raw text and the
\* run goes on, so run_jobs is never left by the TypeError of subscripting
\* such a body.
C14_RawTextBodyIsNoHardFailure ==
    ~(/\ pc = "raised"
      /\ exc.type = "TypeError"
      /\ exc.raised_in \in {"post", "clean_completed"})

\* C15: every call of get_status for a tracked job carries the jobId the
\* service returned when the job was submitted, whatever the snapshots polled
\* in between contained: whenever clean_completed is about to poll the job at
\* the right end of the deque with an id, it is the id of its submission.
C15_PollCarriesSubmissionId ==
    (pc \in {"clean", "drain"} /\ i < n /\ jobs_in_progress # <<>>) =>
        LET job == pop(jobs_in_progress)
        IN  "jobId" \in DOMAIN job.info => job.info.jobId = JobId(job.line_number)

RECURSIVE Printed(_, _)
\* the notices of one kind printed for the jobs of the rows in S
Printed(kind, S) ==
    IF S = {} THEN 0
    ELSE LET r == CHOOSE x \in S : TRUE
         IN  out[r][kind] + Printed(kind, S \ {r})

\* C16: whenever run_jobs is between two steps of its loops (about to pull a
\* row, about to test the drain loop, at the final report) completions is the
\* number of completion notices printed so far and errors is the number of
\* error notices printed so far (job error notices plus the notices of
\* handle_error).
C16_TallyMatchesNotices ==
    pc \in {"for", "while", "done"} =>
        /\ completions = Printed("complete", Rows)
        /\ errors = Printed("errored", Rows) + handled

\* C17: a call of clean_completed that reaches its return keeps the order
\* of the jobs it leaves in the deque: the deque is then the deque of the
\* start of the sweep without the jobs the sweep found complete or in error,
\* and it is the very same sequence when the sweep found none.
C17_SweepKeepsTheOrder ==
    (pc \in {"clean", "drain"} /\ i = n) =>
        /\ LineNumbers(jobs_in_progress) =
               SelectSeq(sweepStart, LAMBDA r : outcome[r] \notin Terminal)
        /\ (\A k \in 1..Len(polled) : outcome[polled[k]] \notin Terminal) =>
               LineNumbers(jobs_in_progress) = sweepStart

\* a sweep of three jobs is at its return with the oldest one retired and
\* the other two put back
C17_Witness ==
    /\ pc \in {"clean", "drain"} /\ i = n
    /\ Len(sweepStart) = 3
    /\ outcome[sweepStart[3]] \in Terminal
    /\ LineNumbers(jobs_in_progress) = <<sweepStart[1], sweepStart[2]>>

Accepted == {r \in Rows : out[r].submitted >= 1}

\* rows whose job a sweep found complete or in error
Retired == {r \in Rows : outcome[r] \in Terminal}

\* C19: in every reachable state no job is twice in the deque, every job in
\* the deque was returned by a successful post call, and the deque holds at
\* most as many jobs as rows were accepted so far less the jobs already
\* retired.
C19_WorkingSetHoldsAcceptedJobsOnce ==
    /\ \A j, k \in 1..Len(jobs_in_progress) :
           jobs_in_progress[j].line_number = jobs_in_progress[k].line_number => j = k
    /\ \A k \in 1..Len(jobs_in_progress) :
           jobs_in_progress[k].line_number \in Accepted
    /\ Len(jobs_in_progress) <= Cardinality(Accepted) - Cardinality(Retired)

\* three rows accepted, one job retired, the other two in the deque
C19_Witness ==
    /\ Cardinality(Accepted) = 3
    /\ Cardinality(Retired) = 1
    /\ Len(jobs_in_progress) = 2

TypeOK ==
    /\ pc \in {"for", "post", "clean", "while", "drain", "sleep", "done", "raised"}
    /\ row \in 0..nrows
    /\ completions \in Nat /\ errors \in Nat
    /\ i \in 0..n

====
